---- MODULE Spec2Model ----
(***************************************************************************)
(* The retrieval-augmented conversation engine of the command console:     *)
(* CommandView.handleSend of src/index.tsx, with the React state it owns   *)
(* (history, input, isProcessing), the timers it awaits and the stream of  *)
(* the generation client it consumes.                                      *)
(*                                                                         *)
(* A JavaScript string is modelled as the sequence of its characters (each *)
(* a one-character string), so that toLowerCase, includes, trim and string *)
(* concatenation are computed as the code computes them.                   *)
(***************************************************************************)
EXTENDS Integers, Sequences, FiniteSets, TLC

\* ------------------------------------------------------------------ bounds
\* number of handleSend calls explored (accepted, blank or while busy)
MaxSubmits == 2
\* number of increments one response stream yields at most
MaxIncrements == 2
\* with no timer pending the clock advances in steps of Quantum milliseconds
Quantum == 100
\* an idle engine with no timer pending lets the clock run up to MaxIdleTime
MaxIdleTime == 100

\* ------------------------------------------------- program constants (ms)
ScanDelay == 600
CountDelay == 400
OfflineDelay == 500

\* ------------------------------------------------------- string primitives
UpperChars ==
    <<"A","B","C","D","E","F","G","H","I","J","K","L","M","N","O","P","Q","R","S","T","U","V","W","X","Y","Z">>

LowerChars ==
    <<"a","b","c","d","e","f","g","h","i","j","k","l","m","n","o","p","q","r","s","t","u","v","w","x","y","z">>

DigitChars ==
    <<"0","1","2","3","4","5","6","7","8","9">>

WhiteSpace == {" ", "\n", "\t"}

toLowerCaseChar(c) ==
    IF \E i \in 1..26 : UpperChars[i] = c
    THEN LowerChars[CHOOSE i \in 1..26 : UpperChars[i] = c]
    ELSE c

toUpperCaseChar(c) ==
    IF \E i \in 1..26 : LowerChars[i] = c
    THEN UpperChars[CHOOSE i \in 1..26 : LowerChars[i] = c]
    ELSE c

\* String.prototype.toLowerCase
toLowerCase(s) == [i \in 1..Len(s) |-> toLowerCaseChar(s[i])]

\* String.prototype.toUpperCase
toUpperCase(s) == [i \in 1..Len(s) |-> toUpperCaseChar(s[i])]

\* String.prototype.includes: t occurs in s as a contiguous substring
includes(s, t) ==
    \E i \in 0..(Len(s) - Len(t)) : SubSeq(s, i + 1, i + Len(t)) = t

RECURSIVE trimStart(_)
trimStart(s) ==
    IF s # <<>> /\ Head(s) \in WhiteSpace THEN trimStart(Tail(s)) ELSE s

RECURSIVE trimEnd(_)
trimEnd(s) ==
    IF s # <<>> /\ s[Len(s)] \in WhiteSpace
    THEN trimEnd(SubSeq(s, 1, Len(s) - 1))
    ELSE s

\* String.prototype.trim
trim(s) == trimEnd(trimStart(s))

\* Number.prototype.toString, base 10, for a natural number
RECURSIVE NumToString(_)
NumToString(n) ==
    IF n < 10
    THEN <<DigitChars[n + 1]>>
    ELSE NumToString(n \div 10) \o <<DigitChars[(n % 10) + 1]>>

\* concatenation of a sequence of strings, in order
RECURSIVE Concat(_)
Concat(ss) == IF ss = <<>> THEN <<>> ELSE Head(ss) \o Concat(Tail(ss))

\* ---------------------------------------------------------- string literals
IdInit ==
    <<"i","n","i","t">>

IdErr ==
    <<"e","r","r">>

SysPrefix ==
    <<"s","y","s","-">>

AiPrefix ==
    <<"a","i","-">>

InitGreeting ==
    <<"E",".","A",".","/","S","Y","S","T","E","M"," ","v","4",".","2"," ","C","o","n","n","e","c","t","e","d",".","\n","M","e","m","o","r","y"," ","C","o","r","e",":"," ","A","c","t","i","v","e"," ","(","2","1",",","6","2","2"," ","r","e","c","o","r","d","s",")","\n","\n","A","w","a","i","t","i","n","g"," ","d","i","r","e","c","t","i","v","e",".">>

ScanningNotice ==
    <<"S","c","a","n","n","i","n","g"," ","n","e","u","r","a","l"," ","m","e","m","o","r","y"," ","b","a","n","k","s",".",".",".">>

IdentifiedPrefix ==
    <<"I","d","e","n","t","i","f","i","e","d"," ">>

IdentifiedSuffix ==
    <<" ","r","e","l","e","v","a","n","t"," ","m","e","m","o","r","y"," ","f","r","a","g","m","e","n","t","s",".">>

OfflineNotice ==
    <<"S","Y","S","T","E","M","_","A","L","E","R","T",":"," ","N","e","u","r","a","l"," ","L","i","n","k"," ","O","f","f","l","i","n","e"," ","(","M","i","s","s","i","n","g"," ","A","P","I"," ","K","e","y",")",".">>

ErrorNotice ==
    <<"C","R","I","T","I","C","A","L","_","E","R","R","O","R",":"," ","P","r","o","c","e","s","s","i","n","g"," ","m","a","t","r","i","x"," ","i","n","t","e","r","r","u","p","t","i","o","n",".">>

RefOpen ==
    <<"[","R","E","F",":"," ">>

RefSep ==
    <<" ","|"," ">>

RefClose ==
    <<"]",":"," ">>

BlankLine ==
    <<"\n","\n">>

NoArchival ==
    <<"N","o"," ","a","r","c","h","i","v","a","l"," ","d","a","t","a"," ","f","o","u","n","d",".">>

PromptHead ==
    <<"Y","o","u"," ","a","r","e"," ","E",".","A",".","/","S","Y","S","T","E","M","."," ","A"," ","h","y","p","e","r","-","e","f","f","i","c","i","e","n","t"," ","e","x","e","c","u","t","i","v","e"," ","o","p","e","r","a","t","i","n","g"," ","s","y","s","t","e","m",".","\n"," "," "," "," "," "," "," "," ","C","o","n","t","e","x","t",":"," ">>

PromptTail ==
    <<"\n"," "," "," "," "," "," "," "," ","\n"," "," "," "," "," "," "," "," ","D","i","r","e","c","t","i","v","e","s",":","\n"," "," "," "," "," "," "," "," ","-"," ","O","u","t","p","u","t"," ","s","t","r","i","c","t","l","y"," ","i","n"," ","f","o","r","m","a","t","t","e","d"," ","t","e","x","t",".","\n"," "," "," "," "," "," "," "," ","-"," ","B","e"," ","c","o","n","c","i","s","e",","," ","a","u","t","h","o","r","i","t","a","t","i","v","e",","," ","a","n","d"," ","d","a","t","a","-","d","r","i","v","e","n",".","\n"," "," "," "," "," "," "," "," ","-"," ","I","f"," ","r","e","f","e","r","e","n","c","i","n","g"," ","c","o","n","t","e","x","t",","," ","u","s","e"," ","[","R","E","F","]"," ","m","a","r","k","e","r","s",".","\n"," "," "," "," "," "," "," "," ">>

QueryPrefix ==
    <<"\n","\n","Q","u","e","r","y",":"," ">>

\* ------------------------------------------------------------ memory store

Content1 ==
    <<"F","o","r"," ","t","h","e"," ","s","c","a","l","a","b","l","e"," ","b","a","c","k","e","n","d"," ","o","f"," ","P","r","o","j","e","c","t"," ","A","l","p","h","a",","," ","w","e"," ","s","h","o","u","l","d"," ","s","t","i","c","k"," ","t","o"," ","a"," ","m","i","c","r","o","s","e","r","v","i","c","e","s"," ","a","r","c","h","i","t","e","c","t","u","r","e"," ","u","s","i","n","g"," ","G","o"," ","f","o","r"," ","h","i","g","h","-","t","h","r","o","u","g","h","p","u","t"," ","s","e","r","v","i","c","e","s"," ","a","n","d"," ","P","y","t","h","o","n"," ","f","o","r"," ","t","h","e"," ","d","a","t","a"," ","s","c","i","e","n","c","e"," ","p","i","p","e","l","i","n","e","."," ","T","h","e"," ","A","P","I"," ","g","a","t","e","w","a","y"," ","w","i","l","l"," ","h","a","n","d","l","e"," ","a","u","t","h","e","n","t","i","c","a","t","i","o","n",".">>

Content3 ==
    <<"T","h","e"," ","Q","4"," ","m","a","r","k","e","t","i","n","g"," ","p","u","s","h"," ","w","i","l","l"," ","f","o","c","u","s"," ","o","n"," ","'","E","x","e","c","u","t","i","v","e"," ","I","n","t","e","l","l","i","g","e","n","c","e","'","."," ","W","e"," ","n","e","e","d"," ","t","o"," ","h","i","g","h","l","i","g","h","t"," ","t","h","e"," ","h","y","b","r","i","d"," ","s","e","a","r","c","h"," ","c","a","p","a","b","i","l","i","t","i","e","s"," ","a","n","d"," ","t","h","e"," ","s","e","c","u","r","e"," ","o","n","-","p","r","e","m","i","s","e"," ","d","e","p","l","o","y","m","e","n","t"," ","o","p","t","i","o","n","s","."," ","B","u","d","g","e","t"," ","a","l","l","o","c","a","t","i","o","n",":"," ","4","0","%"," ","a","d","s",","," ","3","0","%"," ","c","o","n","t","e","n","t",","," ","3","0","%"," ","e","v","e","n","t","s",".">>

Content6 ==
    <<"A","c","t","i","o","n"," ","i","t","e","m","s",":"," ","S","a","r","a","h"," ","t","o"," ","f","i","n","a","l","i","z","e"," ","t","h","e"," ","F","i","g","m","a"," ","d","e","s","i","g","n","s"," ","f","o","r"," ","t","h","e"," ","d","a","s","h","b","o","a","r","d","."," ","M","i","k","e"," ","t","o"," ","o","p","t","i","m","i","z","e"," ","t","h","e"," ","Q","d","r","a","n","t"," ","i","n","d","e","x","e","r"," ","p","a","r","a","m","s","."," ","R","e","l","e","a","s","e","d"," ","v","2",".","1"," ","t","o"," ","s","t","a","g","i","n","g",".">>

\* MOCK_MEMORY: the fields handleSend reads (id, source, content, tags); title,
\* timestamp and the two scores are never read by it
MOCK_MEMORY ==
    << [id |-> <<"c","h","k","_","1">>, source |-> <<"c","l","a","u","d","e">>, content |-> Content1,
        tags |-> <<<<"a","r","c","h","i","t","e","c","t","u","r","e">>, <<"b","a","c","k","e","n","d">>, <<"g","o">>, <<"p","y","t","h","o","n">>>>],
       [id |-> <<"c","h","k","_","3">>, source |-> <<"c","l","a","u","d","e">>, content |-> Content3,
        tags |-> <<<<"m","a","r","k","e","t","i","n","g">>, <<"Q","4">>, <<"b","u","d","g","e","t">>>>],
       [id |-> <<"c","h","k","_","6">>, source |-> <<"c","l","a","u","d","e">>, content |-> Content6,
        tags |-> <<<<"m","e","e","t","i","n","g">>, <<"n","o","t","e","s">>, <<"t","e","a","m">>>>] >>

\* ------------------------------------------------------- environment inputs

DirQ4 ==
    <<"A","N","A","L","Y","Z","E"," ","Q","4"," ","M","E","T","R","I","C","S">>

DirThe ==
    <<"t","h","e">>

DirBlank ==
    <<" ">>

IncSys ==
    <<"S","y","s">>

IncTem ==
    <<"t","e","m"," ","o","p","t","i","m","a","l",".">>
\* "System optimal.", the two increments above joined
SystemOptimal ==
    <<"S","y","s","t","e","m"," ","o","p","t","i","m","a","l",".">>

\* directives the user may type: DirQ4 selects no fragment, DirThe selects
\* all three, DirBlank is whitespace only
Inputs == {DirQ4, DirThe, DirBlank}

\* text increments the generation client may yield
Increments == {IncSys, IncTem}

\* ------------------------------------------------------------------- state
VARIABLES
    history,        \* useState<Message[]>: the conversation history
    input,          \* useState(""): the text in the input box
    isProcessing,   \* useState(false)
    apiKey,         \* process.env.API_KEY is set (fixed for a run)
    mounted,        \* App renders <CommandView />: its state exists
    pc,             \* where the one running handleSend call is suspended
    userMsg,        \* handleSend local
    msgId,          \* handleSend local
    relevantChunks, \* handleSend local
    assistantMsgId, \* handleSend local
    fullText,       \* handleSend local
    delayDue,       \* due time of the setTimeout that handleSend awaits
    offlineTimers,  \* pending setTimeout callbacks of the mock fallback
    now,            \* Date.now(), in milliseconds
    attempts,       \* history variable: every handleSend call, in order
    dirs            \* history variable: per accepted directive, what the
                    \* generation client was asked and what it did

vars ==
    <<history, input, isProcessing, apiKey, mounted, pc, userMsg, msgId,
      relevantChunks, assistantMsgId, fullText, delayDue, offlineTimers,
      now, attempts, dirs>>

\* ---------------------------------------------------------------- messages
\* Message; timestamp is display only and left out. isStreaming is the
\* optional flag: "undefined" when the field is absent. dir is a history
\* field: the number of the directive whose pipeline created the message
\* (0 for the greeting).
Message(id, role, content, streaming, d) ==
    [id |-> id, role |-> role, content |-> content,
     isStreaming |-> streaming, dir |-> d]

\* a greeting carried by a system message
InitialHistory_AsSystem ==
    <<Message(IdInit, "system", InitGreeting, "undefined", 0)>>

\* useState<Message[]>([{id: 'init', role: 'assistant', ...}])
InitialHistory ==
    <<Message(IdInit, "assistant", InitGreeting, "undefined", 0)>>

\* the directive whose pipeline is running (or ran last)
curDir == Len(dirs)

\* ------------------------------------------------------ handleSend: guard
\* the guard without its isProcessing test
Rejects_IgnoresBusy(inp, busy) == trim(inp) = <<>>

\* if (!input.trim() || isProcessing) return;
Rejects(inp, busy) == trim(inp) = <<>> \/ busy

\* ------------------------------------------------ handleSend: the filter
\* c.content.toLowerCase().includes(userMsg.toLowerCase()) ||
\* c.tags.some(t => userMsg.toLowerCase().includes(t))
ChunkMatches(c, msg) ==
    \/ includes(toLowerCase(c.content), toLowerCase(msg))
    \/ \E k \in 1..Len(c.tags) : includes(toLowerCase(msg), c.tags[k])

\* MOCK_MEMORY.filter(...)
FilterChunks(store, msg) == SelectSeq(store, LAMBDA c : ChunkMatches(c, msg))

\* ------------------------------------------------ handleSend: the prompt
\* a block without the upper-casing of the source
RenderChunk_NoUpper(c) == RefOpen \o c.id \o RefSep \o c.source \o RefClose \o c.content

\* `[REF: ${c.id} | ${c.source.toUpperCase()}]: ${c.content}`
RenderChunk(c) ==
    RefOpen \o c.id \o RefSep \o toUpperCase(c.source) \o RefClose \o c.content

\* Array.prototype.join
RECURSIVE Join(_, _)
Join(ss, sep) ==
    IF ss = <<>> THEN <<>>
    ELSE IF Len(ss) = 1 THEN ss[1]
    ELSE ss[1] \o sep \o Join(Tail(ss), sep)

\* relevantChunks.map(c => ...).join("\n\n")
Context(chunks) ==
    Join([i \in 1..Len(chunks) |-> RenderChunk(chunks[i])], BlankLine)

\* the systemPrompt template, with context || "No archival data found."
SystemPrompt(context) ==
    PromptHead \o (IF context # <<>> THEN context ELSE NoArchival) \o PromptTail

\* the text part of the request: systemPrompt + "\n\nQuery: " + userMsg
RequestText(chunks, msg) == SystemPrompt(Context(chunks)) \o QueryPrefix \o msg

\* the identifiers of a sequence of chunks
ChunkIds(chunks) == [i \in 1..Len(chunks) |-> chunks[i].id]

\* ------------------------------------------- handleSend: history updaters
\* prev => [...prev, {id: msgId, role: 'user', content: userMsg}]
AppendUser(prev, id, text, d) ==
    Append(prev, Message(id, "user", text, "undefined", d))

\* prev => [...prev, {id: 'sys-' + msgId, role: 'system', content: "Scanning..."}]
AppendNotice(prev, id, d) ==
    Append(prev, Message(SysPrefix \o id, "system", ScanningNotice, "undefined", d))

\* `Identified ${relevantChunks.length} relevant memory fragments.`
IdentifiedNotice(n) == IdentifiedPrefix \o NumToString(n) \o IdentifiedSuffix

\* an updater that puts the rewritten notice first
UpdateNotice_ToFront(prev, n) ==
    LET last == prev[Len(prev)] IN
    IF last.role = "system"
    THEN <<[last EXCEPT !.content = IdentifiedNotice(n)]>>
             \o SubSeq(prev, 1, Len(prev) - 1)
    ELSE prev

\* an updater without the test of the role of the last message
UpdateNotice_AnyRole(prev, n) ==
    LET last == prev[Len(prev)] IN
    Append(SubSeq(prev, 1, Len(prev) - 1),
           [last EXCEPT !.content = IdentifiedNotice(n)])

\* the updater of the found branch: replaces the last message if it is a
\* system message, leaves history alone otherwise
UpdateNotice(prev, n) ==
    LET last == prev[Len(prev)] IN
    IF last.role = "system"
    THEN Append(SubSeq(prev, 1, Len(prev) - 1),
                [last EXCEPT !.content = IdentifiedNotice(n)])
    ELSE prev

\* a zero-match branch that removes the notice of the running directive only
RemoveSystem_OnlyLast(prev) ==
    IF prev[Len(prev)].role = "system" THEN SubSeq(prev, 1, Len(prev) - 1) ELSE prev

\* a zero-match branch that keeps the user messages only
RemoveSystem_KeepsUser(prev) == SelectSeq(prev, LAMBDA m : m.role = "user")

\* a zero-match branch that leaves history alone
RemoveSystem_Noop(prev) == prev

\* prev => prev.filter(m => m.role !== 'system')
RemoveSystem(prev) == SelectSeq(prev, LAMBDA m : m.role # "system")

\* prev => [...prev, {id: assistantMsgId, role: 'assistant', content: '', isStreaming: true}]
AppendAssistant(prev, id, d) ==
    Append(prev, Message(id, "assistant", <<>>, "true", d))

\* prev => prev.map(m => m.id === assistantMsgId ? {...m, content: fullText} : m)
SetContent(prev, id, text) ==
    [i \in 1..Len(prev) |->
        IF prev[i].id = id THEN [prev[i] EXCEPT !.content = text] ELSE prev[i]]

\* a finalisation that leaves the flag alone
ClearStreaming_Noop(prev, id) == prev

\* prev => prev.map(m => m.id === assistantMsgId ? {...m, isStreaming: false} : m)
ClearStreaming(prev, id) ==
    [i \in 1..Len(prev) |->
        IF prev[i].id = id THEN [prev[i] EXCEPT !.isStreaming = "false"] ELSE prev[i]]

\* a fallback that reports the generic error instead
AppendOffline_AsError(prev, d) ==
    Append(prev, Message(IdErr, "assistant", ErrorNotice, "undefined", d))

\* a fallback whose notice takes the place of the message with the same id
AppendOffline_Replaces(prev, d) ==
    Append(SelectSeq(prev, LAMBDA m : m.id # IdErr),
           Message(IdErr, "assistant", OfflineNotice, "undefined", d))

\* the setTimeout callback of the mock fallback
AppendOffline(prev, d) ==
    Append(prev, Message(IdErr, "assistant", OfflineNotice, "undefined", d))

\* a catch block that only logs
AppendError_Dropped(prev, d) == prev

\* the catch block
AppendError(prev, d) ==
    Append(prev, Message(IdErr, "assistant", ErrorNotice, "undefined", d))

\* -------------------------------------------------------------------- Init
Init ==
    /\ history = InitialHistory
    /\ input = <<>>
    /\ isProcessing = FALSE
    /\ apiKey \in BOOLEAN
    /\ mounted = TRUE
    /\ pc = "idle"
    /\ userMsg = <<>>
    /\ msgId = <<>>
    /\ relevantChunks = <<>>
    /\ assistantMsgId = <<>>
    /\ fullText = <<>>
    /\ delayDue = 0
    /\ offlineTimers = <<>>
    /\ now = 0
    /\ attempts = <<>>
    /\ dirs = <<>>

\* ------------------------------------------------------------------- steps
\* a state setter called with the value h: React drops the update when the
\* component is no longer mounted
Commit(h) == IF mounted THEN h ELSE history

\* a return of handleSend that leaves isProcessing set
Finally_KeepsProcessing ==
    /\ isProcessing' = isProcessing
    /\ pc' = "idle"
    /\ userMsg' = <<>>
    /\ msgId' = <<>>
    /\ relevantChunks' = <<>>
    /\ assistantMsgId' = <<>>
    /\ fullText' = <<>>
    /\ delayDue' = 0

\* finally { setIsProcessing(false) } and the return of handleSend: its
\* locals go out of scope
Finally ==
    /\ isProcessing' = (IF mounted THEN FALSE ELSE isProcessing)
    /\ pc' = "idle"
    /\ userMsg' = <<>>
    /\ msgId' = <<>>
    /\ relevantChunks' = <<>>
    /\ assistantMsgId' = <<>>
    /\ fullText' = <<>>
    /\ delayDue' = 0

\* onChange of the input box, or a click on a suggestion (explored as long
\* as a further handleSend call is)
SetInput(t) ==
    /\ mounted
    /\ Len(attempts) < MaxSubmits
    /\ input # t
    /\ input' = t
    /\ UNCHANGED <<history, isProcessing, apiKey, mounted, pc, userMsg, msgId,
                   relevantChunks, assistantMsgId, fullText, delayDue,
                   offlineTimers, now, attempts, dirs>>

\* handleSend from its call to its first await (the 600 ms delay)
HandleSend ==
    /\ mounted
    /\ Len(attempts) < MaxSubmits
    /\ attempts' = Append(attempts, [text |-> input, busy |-> isProcessing])
    /\ IF Rejects(input, isProcessing)
       THEN UNCHANGED <<history, input, isProcessing, pc, userMsg, msgId,
                        relevantChunks, assistantMsgId, fullText, delayDue,
                        dirs>>
       ELSE /\ userMsg' = input
            /\ msgId' = NumToString(now)
            /\ input' = <<>>
            /\ dirs' = Append(dirs, [text |-> input, received |-> <<>>,
                                     signal |-> "none", invoked |-> 0,
                                     prompt |-> <<>>, cancelledAt |-> -1,
                                     selected |-> ChunkIds(FilterChunks(MOCK_MEMORY, input))])
            /\ history' = AppendNotice(
                              AppendUser(history, NumToString(now), input,
                                         Len(dirs) + 1),
                              NumToString(now), Len(dirs) + 1)
            /\ isProcessing' = TRUE
            /\ relevantChunks' = FilterChunks(MOCK_MEMORY, input)
            /\ delayDue' = now + ScanDelay
            /\ pc' = "scanDelay"
            /\ UNCHANGED <<assistantMsgId, fullText>>
    /\ UNCHANGED <<apiKey, mounted, offlineTimers, now>>

\* "2. Stream Response", entered with history h: with an API key the
\* streaming assistant message is appended and generateContentStream is
\* called and awaited; without one the fallback timer is set and handleSend
\* returns through finally
StreamResponse(h) ==
    IF apiKey
    THEN /\ assistantMsgId' = AiPrefix \o NumToString(now)
         /\ history' = Commit(AppendAssistant(h, AiPrefix \o NumToString(now), curDir))
         /\ dirs' = [dirs EXCEPT ![curDir].invoked = @ + 1,
                                 ![curDir].prompt = RequestText(relevantChunks, userMsg)]
         /\ pc' = "awaitResponse"
         /\ delayDue' = 0
         /\ UNCHANGED <<isProcessing, userMsg, msgId, relevantChunks,
                        fullText, offlineTimers>>
    ELSE /\ history' = Commit(h)
         /\ offlineTimers' = Append(offlineTimers,
                                    [due |-> now + OfflineDelay, dir |-> curDir])
         /\ Finally
         /\ UNCHANGED dirs

\* the 600 ms delay has elapsed
ScanDelayElapsed ==
    /\ pc = "scanDelay"
    /\ delayDue <= now
    /\ \A i \in 1..Len(offlineTimers) : offlineTimers[i].due > delayDue
    /\ IF Len(relevantChunks) > 0
       THEN /\ history' = Commit(UpdateNotice(history, Len(relevantChunks)))
            /\ delayDue' = now + CountDelay
            /\ pc' = "countDelay"
            /\ UNCHANGED <<isProcessing, userMsg, msgId, relevantChunks,
                           assistantMsgId, fullText, offlineTimers, dirs>>
       ELSE StreamResponse(RemoveSystem(history))
    /\ UNCHANGED <<input, apiKey, mounted, now, attempts>>

\* the 400 ms delay of the found branch has elapsed
CountDelayElapsed ==
    /\ pc = "countDelay"
    /\ delayDue <= now
    /\ \A i \in 1..Len(offlineTimers) : offlineTimers[i].due > delayDue
    /\ StreamResponse(history)
    /\ UNCHANGED <<input, apiKey, mounted, now, attempts>>

\* await generateContentStream(...) resolves with the stream
ResponseResolved ==
    /\ pc = "awaitResponse"
    /\ pc' = "streaming"
    /\ fullText' = <<>>
    /\ UNCHANGED <<history, input, isProcessing, apiKey, mounted, userMsg, msgId,
                   relevantChunks, assistantMsgId, delayDue, offlineTimers,
                   now, attempts, dirs>>

\* a fault handler that reports the fault and calls the generation client
\* again (once)
ClientFault_Retries ==
    /\ pc \in {"awaitResponse", "streaming"}
    /\ dirs[curDir].invoked < 2
    /\ dirs' = [dirs EXCEPT ![curDir].signal = "fault", ![curDir].invoked = @ + 1]
    /\ history' = Commit(AppendError(history, curDir))
    /\ pc' = "awaitResponse"
    /\ UNCHANGED <<input, isProcessing, apiKey, mounted, userMsg, msgId,
                   relevantChunks, assistantMsgId, fullText, delayDue,
                   offlineTimers, now, attempts>>

\* the generation client raises a fault, before the stream exists or while
\* it is consumed: catch, then finally
ClientFault ==
    /\ pc \in {"awaitResponse", "streaming"}
    /\ dirs' = [dirs EXCEPT ![curDir].signal = "fault"]
    /\ history' = Commit(AppendError(history, curDir))
    /\ Finally
    /\ UNCHANGED <<input, apiKey, mounted, offlineTimers, now, attempts>>

\* fullText = text
NextFullText_Overwrite(full, text) == text

\* fullText += text
NextFullText(full, text) == full \o text

\* the response streams explored yield "Sys", "tem optimal.", "Sys", ... and
\* end, or fail, after any number of increments up to MaxIncrements
ScriptedIncrement(k) == IF k % 2 = 1 THEN IncSys ELSE IncTem

\* one iteration of the for await loop
StreamChunk(text) ==
    /\ pc = "streaming"
    /\ Len(dirs[curDir].received) < MaxIncrements
    /\ text = ScriptedIncrement(Len(dirs[curDir].received) + 1)
    /\ dirs' = [dirs EXCEPT ![curDir].received = Append(@, text)]
    /\ fullText' = NextFullText(fullText, text)
    /\ history' = Commit(SetContent(history, assistantMsgId,
                                  NextFullText(fullText, text)))
    /\ UNCHANGED <<input, isProcessing, apiKey, mounted, pc, userMsg, msgId,
                   relevantChunks, assistantMsgId, delayDue, offlineTimers,
                   now, attempts>>

\* the stream ends: the loop exits, the flag is cleared, then finally
StreamDone ==
    /\ pc = "streaming"
    /\ dirs' = [dirs EXCEPT ![curDir].signal = "completed"]
    /\ history' = Commit(ClearStreaming(history, assistantMsgId))
    /\ Finally
    /\ UNCHANGED <<input, apiKey, mounted, offlineTimers, now, attempts>>

\* the 500 ms timer of the mock fallback fires
OfflineTimerFired ==
    /\ offlineTimers # <<>>
    /\ Head(offlineTimers).due <= now
    /\ pc \in {"scanDelay", "countDelay"} => Head(offlineTimers).due <= delayDue
    /\ history' = Commit(AppendOffline(history, Head(offlineTimers).dir))
    /\ offlineTimers' = Tail(offlineTimers)
    /\ UNCHANGED <<input, isProcessing, apiKey, mounted, pc, userMsg, msgId,
                   relevantChunks, assistantMsgId, fullText, delayDue, now,
                   attempts, dirs>>

\* the user selects another view in the sidebar: App stops rendering
\* CommandView, whose state is discarded (it is kept here as it was, out of
\* reach of every setter); a running handleSend call is not told and goes on
LeaveView ==
    /\ mounted
    /\ mounted' = FALSE
    /\ dirs' = IF pc \in {"awaitResponse", "streaming"}
               THEN [dirs EXCEPT ![curDir].cancelledAt = Len(dirs[curDir].received)]
               ELSE dirs
    /\ UNCHANGED <<history, input, isProcessing, apiKey, pc, userMsg, msgId,
                   relevantChunks, assistantMsgId, fullText, delayDue,
                   offlineTimers, now, attempts>>

\* due times of the pending timers
PendingDues ==
    (IF pc \in {"scanDelay", "countDelay"} THEN {delayDue} ELSE {})
    \cup {offlineTimers[i].due : i \in 1..Len(offlineTimers)}

\* time passes: up to the moment the next timer is due, which fires before
\* time passes further, or by Quantum when no timer is pending
Tick ==
    /\ \A d \in PendingDues : d > now
    /\ PendingDues = {} => now < MaxIdleTime
    /\ now' = IF PendingDues = {}
              THEN now + Quantum
              ELSE CHOOSE d \in PendingDues : \A e \in PendingDues : d <= e
    /\ UNCHANGED <<history, input, isProcessing, apiKey, mounted, pc, userMsg, msgId,
                   relevantChunks, assistantMsgId, fullText, delayDue,
                   offlineTimers, attempts, dirs>>

Next ==
    \/ \E t \in Inputs : SetInput(t)
    \/ HandleSend
    \/ ScanDelayElapsed
    \/ CountDelayElapsed
    \/ ResponseResolved
    \/ ClientFault
    \/ \E text \in Increments : StreamChunk(text)
    \/ StreamDone
    \/ OfflineTimerFired
    \/ LeaveView
    \/ Tick

Spec == Init /\ [][Next]_vars

\* what the runtime and the environment guarantee: time passes and a timer
\* that is due fires (setTimeout), the awaited generateContentStream call
\* settles, and the response stream is finite
Fairness ==
    /\ WF_vars(Tick)
    /\ WF_vars(ScanDelayElapsed)
    /\ WF_vars(CountDelayElapsed)
    /\ WF_vars(OfflineTimerFired)
    /\ WF_vars(ResponseResolved)
    /\ WF_vars(StreamDone)

LiveSpec == Init /\ [][Next]_vars /\ Fairness

\* ================================================================== claims
\* indices of the messages a directive's pipeline created
MsgsOf(d) == {i \in 1..Len(history) : history[i].dir = d}

\* the response messages of directive d that carry the given fixed notice
NoticesOf(d, notice) ==
    {i \in MsgsOf(d) : history[i].role = "assistant" /\ history[i].content = notice}

\* the streamed assistant messages of directive d (created with the flag)
StreamedOf(d) ==
    {i \in MsgsOf(d) : history[i].role = "assistant" /\ history[i].isStreaming # "undefined"}

\* C1: whenever the engine is idle, no message in history is still streaming
C1_NoStreamingWhenIdle ==
    ~isProcessing => \A i \in 1..Len(history) : history[i].isStreaming # "true"

\* C2: whenever the engine is idle, history holds no system-notice message
C2_NoNoticeWhenIdle ==
    ~isProcessing => \A i \in 1..Len(history) : history[i].role # "system"

\* C3: messages of an earlier directive never follow a message of a later
\* one, so every message of D1 is in history before D2's user message
C3_NoInterleaving ==
    \A i, j \in 1..Len(history) : i < j => history[i].dir <= history[j].dir

\* the texts of the user messages in history, in order
UserTexts ==
    LET users == SelectSeq(history, LAMBDA m : m.role = "user")
    IN  [i \in 1..Len(users) |-> users[i].content]

\* the texts of the handleSend calls made with a non-blank input while no
\* pipeline was in flight, in order
IdleTexts ==
    LET idle == SelectSeq(attempts, LAMBDA a : ~a.busy /\ trim(a.text) # <<>>)
    IN  [i \in 1..Len(idle) |-> idle[i].text]

\* C4: a handleSend call made while a pipeline is in flight changes neither
\* history nor the running pipeline, and its text never becomes a user
\* message: the user messages are exactly the texts submitted while idle
C4_BusySubmitRejected ==
    /\ [](UserTexts = IdleTexts)
    /\ [][(Len(attempts') > Len(attempts) /\ isProcessing)
            => UNCHANGED <<history, input, isProcessing, pc, userMsg, msgId,
                           relevantChunks, assistantMsgId, fullText, delayDue,
                           offlineTimers, dirs>>]_vars

\* a non-blank directive was submitted while a pipeline was in flight, and
\* that pipeline has since ended
C4_Witness ==
    /\ ~isProcessing
    /\ \E k \in 1..Len(attempts) : attempts[k].busy /\ trim(attempts[k].text) # <<>>

\* C5: for a directive whose generation client raised a fault, history (of
\* the mounted component) holds exactly one error notice of that directive,
\* placed after its assistant message, whose body is what was accumulated
\* before the fault, and the engine is idle again
C5_FaultEndsFailed ==
    \A d \in 1..Len(dirs) :
        (mounted /\ dirs[d].signal = "fault") =>
            /\ Cardinality(NoticesOf(d, ErrorNotice)) = 1
            /\ Cardinality(StreamedOf(d)) = 1
            /\ \A a \in StreamedOf(d) :
                   /\ history[a].content = Concat(dirs[d].received)
                   /\ \A e \in NoticesOf(d, ErrorNotice) :
                          a < e /\ history[e].isStreaming = "undefined"
            /\ (d = curDir => ~isProcessing /\ pc = "idle")

\* a fault before any increment and a fault in mid-stream have both happened
C5_Witness ==
    /\ mounted
    /\ \E d \in 1..Len(dirs) : dirs[d].signal = "fault" /\ dirs[d].received = <<>>
    /\ \E d \in 1..Len(dirs) : dirs[d].signal = "fault" /\ dirs[d].received # <<>>

\* C6: without an API key the generation client is never invoked, no
\* message is ever streaming, no error notice is ever appended, and every
\* response message of a directive is the fixed offline notice, at most one
\* per directive
C6_OfflineNeverError ==
    ~apiKey =>
        /\ \A d \in 1..Len(dirs) : dirs[d].invoked = 0 /\ dirs[d].signal = "none"
        /\ \A i \in 1..Len(history) :
               /\ history[i].isStreaming # "true"
               /\ history[i].content # ErrorNotice
               /\ (history[i].role = "assistant" /\ history[i].dir > 0)
                      => /\ history[i].content = OfflineNotice
                         /\ history[i].isStreaming = "undefined"
        /\ \A d \in 1..Len(dirs) : Cardinality(NoticesOf(d, OfflineNotice)) <= 1

\* without an API key, two directives have each received their offline notice
C6_Witness ==
    /\ ~apiKey
    /\ Len(dirs) = 2
    /\ \A d \in 1..2 : NoticesOf(d, OfflineNotice) # {}

\* C7: without an API key, once the engine is idle again after a directive,
\* the last message of history is that directive's offline notice
C7_OfflineNoticeLastWhenIdle ==
    (~apiKey /\ ~isProcessing /\ curDir > 0) =>
        /\ history[Len(history)].content = OfflineNotice
        /\ history[Len(history)].dir = curDir
        /\ history[Len(history)].isStreaming # "true"

\* the streaming assistant message of the running directive
StreamingBody ==
    LET a == CHOOSE i \in StreamedOf(curDir) : TRUE IN history[a].content

\* s is a prefix of t
IsPrefix(s, t) == Len(s) <= Len(t) /\ SubSeq(t, 1, Len(s)) = s

\* C8: while a response is generated (in the mounted component), the body of its assistant message is
\* the concatenation of the increments received so far; a step that receives
\* an increment appends it to that body and changes no other message; and
\* no step ever shortens or rewrites the body of a streaming message
C8_BodyGrowsByIncrements ==
    /\ []((mounted /\ pc \in {"awaitResponse", "streaming"}) =>
            /\ Cardinality(StreamedOf(curDir)) = 1
            /\ StreamingBody = Concat(dirs[curDir].received))
    /\ [][(mounted /\ pc = "streaming"
              /\ dirs'[curDir].received # dirs[curDir].received)
            => /\ Len(history') = Len(history)
               /\ \A i \in 1..Len(history) :
                      IF i \in StreamedOf(curDir)
                      THEN history'[i] =
                             [history[i] EXCEPT !.content =
                                 @ \o dirs'[curDir].received[Len(dirs'[curDir].received)]]
                      ELSE history'[i] = history[i]]_vars
    /\ [][\A i \in 1..Len(history) :
            history[i].isStreaming = "true"
                => \E j \in 1..Len(history') :
                       /\ history'[j].id = history[i].id
                       /\ IsPrefix(history[i].content, history'[j].content)]_vars

\* the second increment has been received and the body reads "System optimal."
C8_Witness ==
    /\ mounted
    /\ pc = "streaming"
    /\ dirs[curDir].received = <<IncSys, IncTem>>
    /\ StreamingBody = SystemOptimal

\* C9: for a directive whose stream completed, history (of the mounted
\* component) holds exactly one
\* streamed assistant message of that directive, its flag is cleared, its
\* body is the concatenation of all increments (empty if there were none),
\* and the directive has no error notice
C9_CompletionFinalizes ==
    \A d \in 1..Len(dirs) :
        (mounted /\ dirs[d].signal = "completed") =>
            /\ Cardinality(StreamedOf(d)) = 1
            /\ \A a \in StreamedOf(d) :
                   /\ history[a].isStreaming = "false"
                   /\ history[a].content = Concat(dirs[d].received)
            /\ NoticesOf(d, ErrorNotice) = {}

\* one directive completed with body "System optimal." and another
\* completed without any increment, leaving an empty body
C9_Witness ==
    /\ mounted
    /\ \E d \in 1..Len(dirs) :
           /\ dirs[d].signal = "completed"
           /\ dirs[d].received = <<IncSys, IncTem>>
           /\ \E a \in StreamedOf(d) :
                  history[a].content = SystemOptimal /\ history[a].isStreaming = "false"
    /\ \E d \in 1..Len(dirs) :
           /\ dirs[d].signal = "completed"
           /\ dirs[d].received = <<>>
           /\ \E a \in StreamedOf(d) : history[a].content = <<>>

\* the matching rule as stated: the body contains the directive, or a tag is
\* contained in the directive, both without regard to letter case
MatchesCaseInsensitive(c, msg) ==
    \/ includes(toLowerCase(c.content), toLowerCase(msg))
    \/ \E k \in 1..Len(c.tags) :
           includes(toLowerCase(msg), toLowerCase(c.tags[k]))

\* C10: the fragments selected for the running directive are exactly the
\* fragments of the store that match case-insensitively, in store order
C10_FilterCaseInsensitive ==
    pc \in {"scanDelay", "countDelay"} =>
        relevantChunks =
            SelectSeq(MOCK_MEMORY, LAMBDA c : MatchesCaseInsensitive(c, userMsg))

\* the number of fragments the filter returned for directive d
MatchesOf(d) == Len(dirs[d].selected)

\* the system notices of directive d
SystemOf(d) == {i \in MsgsOf(d) : history[i].role = "system"}

\* the response messages of directive d (streamed, offline or error)
ResponsesOf(d) == {i \in MsgsOf(d) : history[i].role = "assistant"}

\* C11: once the scan of a directive with n >= 1 selected fragments has
\* resolved, and so before any response message of it is appended, its
\* system notice reads 'Identified n relevant memory fragments.'
C11_NoticeShowsCount ==
    (pc = "countDelay" /\ MatchesOf(curDir) >= 1)
        => \E i \in SystemOf(curDir) :
               history[i].content = IdentifiedNotice(MatchesOf(curDir))

\* C12: for a directive whose scan selected no fragment, the notice only
\* ever reads the scanning text, it is gone as soon as the scan has resolved
\* (in the mounted component),
\* and it is never in history together with a response of that directive
C12_ZeroMatchNoticeRemoved ==
    \A d \in 1..Len(dirs) :
        MatchesOf(d) = 0 =>
            /\ \A i \in SystemOf(d) : history[i].content = ScanningNotice
            /\ (mounted /\ (d < curDir \/ pc # "scanDelay")) => SystemOf(d) = {}
            /\ ResponsesOf(d) # {} => SystemOf(d) = {}

\* a directive without selected fragment has its response in history, after
\* an earlier directive with selected fragments left its notice behind
C12_Witness ==
    /\ mounted
    /\ Len(dirs) = 2
    /\ MatchesOf(1) >= 1
    /\ MatchesOf(2) = 0
    /\ ResponsesOf(2) # {}
    /\ SystemOf(2) = {}

\* the open messages: system notices and assistant messages still streaming
OpenMessages ==
    {i \in 1..Len(history) :
        history[i].role = "system" \/ history[i].isStreaming = "true"}

\* C13: at most one message of history is open
C13_AtMostOneOpen == Cardinality(OpenMessages) <= 1

\* two records are the same message: same identifier, created by the same
\* directive
SameMessage(m1, m2) == m1.id = m2.id /\ m1.dir = m2.dir

\* C16: a step never swaps two messages that stay in history, and the user
\* message of a directive precedes every other message of that directive
C16_NeverReordered ==
    /\ [](\A u \in 1..Len(history) :
            history[u].role = "user"
                => \A k \in MsgsOf(history[u].dir) : k # u => u < k)
    /\ [][\A i, j \in 1..Len(history) :
            i < j =>
                \A i2, j2 \in 1..Len(history') :
                    (SameMessage(history[i], history'[i2])
                        /\ SameMessage(history[j], history'[j2])) => i2 < j2]_vars

\* the second directive's notice was rewritten in place and its response
\* appended, behind the messages of the first directive
C16_Witness ==
    /\ mounted
    /\ Len(dirs) = 2
    /\ ResponsesOf(1) # {}
    /\ ResponsesOf(2) # {}
    /\ \E i \in SystemOf(2) : history[i].content = IdentifiedNotice(MatchesOf(2))

\* C17: the messages of history have pairwise distinct identifiers
C17_IdsDistinct ==
    \A i, j \in 1..Len(history) : i # j => history[i].id # history[j].id

\* C19: no step removes or replaces a user message or an assistant message
C19_AppendOnlyExceptNotices ==
    [][\A i \in 1..Len(history) :
          history[i].role # "system"
              => \E j \in 1..Len(history') :
                     /\ SameMessage(history[i], history'[j])
                     /\ history'[j].role = history[i].role]_vars

\* the zero-match branch of the second directive has removed the notices,
\* and every other message of both directives is still there
C19_Witness ==
    /\ mounted
    /\ Len(dirs) = 2
    /\ MatchesOf(1) >= 1
    /\ MatchesOf(2) = 0
    /\ pc # "scanDelay"
    /\ \A i \in 1..Len(history) : history[i].role # "system"
    /\ ResponsesOf(1) # {}
    /\ history[1].id = IdInit

\* a message whose body is frozen: a user message, or an assistant message
\* that is not streaming
IsFrozen(m) ==
    m.role = "user" \/ (m.role = "assistant" /\ m.isStreaming # "true")

\* C20: no step changes the body of a user message or of an assistant
\* message whose streaming flag is not true
C20_BodyFrozenUnlessStreaming ==
    [][\A i \in 1..Len(history) :
          IsFrozen(history[i])
              => \A j \in 1..Len(history') :
                     SameMessage(history[i], history'[j])
                         => history'[j].content = history[i].content]_vars

\* the first directive's response is finalized with a body while the
\* second directive's response has received an increment
C20_Witness ==
    /\ mounted
    /\ Len(dirs) = 2
    /\ pc = "streaming"
    /\ dirs[2].received # <<>>
    /\ \E a \in StreamedOf(1) :
           history[a].isStreaming = "false" /\ history[a].content # <<>>

LabelClaude ==
    <<"C","L","A","U","D","E">>

\* the provenance label of a fragment, as displayed
ProvenanceLabel(c) == LabelClaude

\* one labelled block per fragment, in order, blank line between two blocks
RECURSIVE LabelledBlocks(_)
LabelledBlocks(fs) ==
    IF fs = <<>> THEN <<>>
    ELSE RefOpen \o fs[1].id \o RefSep \o ProvenanceLabel(fs[1]) \o RefClose
             \o fs[1].content
             \o (IF Len(fs) > 1 THEN BlankLine ELSE <<>>)
             \o LabelledBlocks(Tail(fs))

\* the fragments of the store with the given identifiers, in that order
FragmentsById(ids) ==
    [i \in 1..Len(ids) |->
        MOCK_MEMORY[CHOOSE k \in 1..Len(MOCK_MEMORY) : MOCK_MEMORY[k].id = ids[i]]]

\* C18: the prompt given to the generation client carries, between the
\* fixed instructions and the query, one labelled block per selected
\* fragment in filter order joined by blank lines, and the sentinel exactly
\* when no fragment was selected
C18_ContextBlock ==
    [][\A d \in 1..Len(dirs') :
          (d <= Len(dirs) /\ dirs'[d].invoked # dirs[d].invoked) =>
              LET sel == FragmentsById(dirs'[d].selected) IN
              /\ dirs'[d].invoked = 1
              /\ dirs'[d].prompt =
                     PromptHead
                         \o (IF sel = <<>> THEN NoArchival ELSE LabelledBlocks(sel))
                         \o PromptTail \o QueryPrefix \o dirs'[d].text]_vars

\* one prompt was built from three selected fragments, another from none
C18_Witness ==
    /\ \E d \in 1..Len(dirs) : dirs[d].invoked > 0 /\ MatchesOf(d) = 3
    /\ \E d \in 1..Len(dirs) : dirs[d].invoked > 0 /\ MatchesOf(d) = 0

\* C14: once the view was left while a response was generated, no further
\* increment is consumed, and history holds exactly one assistant message
\* of that directive, finalized, with the body accumulated until then, and
\* no system notice of it
C14_CancelFinalizes ==
    \A d \in 1..Len(dirs) :
        dirs[d].cancelledAt >= 0 =>
            /\ Len(dirs[d].received) = dirs[d].cancelledAt
            /\ Cardinality(StreamedOf(d)) = 1
            /\ \A a \in StreamedOf(d) :
                   /\ history[a].isStreaming = "false"
                   /\ history[a].content = Concat(dirs[d].received)
            /\ SystemOf(d) = {}

\* C15: a directive in flight in the mounted component is always followed
\* by the engine being idle again (or by the view being left)
C15_BackToIdle ==
    (mounted /\ isProcessing) ~> (~isProcessing \/ ~mounted)

\* the engine is idle again after a directive that completed and after a
\* directive that faulted
C15_Witness ==
    /\ mounted
    /\ ~isProcessing
    /\ \E d \in 1..Len(dirs) : dirs[d].signal = "completed"
    /\ \E d \in 1..Len(dirs) : dirs[d].signal = "fault"

\* the handleSend calls that passed the guard, in order
AcceptedAttempts ==
    SelectSeq(attempts, LAMBDA a : ~Rejects(a.text, a.busy))

\* C21: the generation client is invoked at most once per accepted
\* directive; every directive is an accepted submission of the user; and an
\* invocation happens only for the running directive, which was not invoked
\* before and has not faulted, at the end of its scan
C21_NoAutomaticRetry ==
    /\ [](/\ Len(dirs) = Len(AcceptedAttempts)
          /\ \A d \in 1..Len(dirs) :
                 /\ dirs[d].invoked <= 1
                 /\ dirs[d].text = AcceptedAttempts[d].text
                 /\ dirs[d].signal # "none" => dirs[d].invoked = 1)
    /\ [][\A d \in 1..Len(dirs) :
              dirs'[d].invoked # dirs[d].invoked =>
                  /\ d = curDir
                  /\ pc \in {"scanDelay", "countDelay"}
                  /\ dirs[d].invoked = 0
                  /\ dirs[d].signal = "none"
                  /\ dirs'[d].invoked = 1
                  /\ attempts' = attempts]_vars

\* a directive faulted, the engine went back to idle, and the next
\* generation was requested by the next accepted submission
C21_Witness ==
    /\ Len(dirs) = 2
    /\ Len(attempts) = 2
    /\ dirs[1].signal = "fault"
    /\ dirs[1].invoked = 1
    /\ dirs[2].invoked = 1

\* the number of offline notices of directive d in history
OfflineCount(d) == Cardinality(NoticesOf(d, OfflineNotice))

\* C22: without an API key, history never holds more than one offline
\* notice of a directive, a notice once appended stays, and every accepted
\* directive is eventually followed by history holding exactly one offline
\* notice of it (in the mounted component), whatever the engine does in
\* between
C22_OfflineNoticeOnce ==
    /\ [](~apiKey => \A d \in 1..Len(dirs) : OfflineCount(d) <= 1)
    /\ [][\A d \in 1..Len(dirs) : OfflineCount(d)' >= OfflineCount(d)]_vars
    /\ \A d \in 1..MaxSubmits :
           (~apiKey /\ mounted /\ d <= Len(dirs))
               ~> (~mounted \/ OfflineCount(d) = 1)

\* the offline notice of the first directive was appended after the second
\* directive had been accepted, and the second has its own notice too
C22_Witness ==
    /\ ~apiKey
    /\ mounted
    /\ Len(dirs) = 2
    /\ OfflineCount(1) = 1
    /\ OfflineCount(2) = 1
    /\ \E i \in NoticesOf(1, OfflineNotice) : \E j \in MsgsOf(2) : j < i

\* the messages of h that are not system notices, in order
NonSystem(h) == SelectSeq(h, LAMBDA m : m.role # "system")

\* C23: the step that resolves a scan without selected fragment (in the
\* mounted component) leaves no system message in history, of any
\* directive, and keeps every other message, in order
C23_ZeroMatchRemovesAllSystem ==
    [][(mounted /\ pc = "scanDelay" /\ pc' # "scanDelay"
               /\ Len(relevantChunks) = 0) =>
           /\ \A i \in 1..Len(history') : history'[i].role # "system"
           /\ SubSeq(history', 1, Len(NonSystem(history))) = NonSystem(history)]_vars

\* the scan of the second directive selected nothing and has resolved: the
\* notice the first directive (with selected fragments) left is gone too
C23_Witness ==
    /\ mounted
    /\ Len(dirs) = 2
    /\ MatchesOf(1) >= 1
    /\ MatchesOf(2) = 0
    /\ pc # "scanDelay"
    /\ MsgsOf(1) # {}
    /\ \A i \in 1..Len(history) : history[i].role # "system"

\* C24: history is never empty and its first element is the initial
\* greeting, so the last element the notice update reads always exists
C24_GreetingStaysFirst ==
    /\ Len(history) >= 1
    /\ history[1] = InitialHistory[1]

\* a scan without selected fragment removed the system messages, a later
\* scan with selected fragments read the last element of history, and the
\* greeting is still first
C24_Witness ==
    /\ mounted
    /\ Len(dirs) = 2
    /\ MatchesOf(1) = 0
    /\ MatchesOf(2) >= 1
    /\ pc = "countDelay"
    /\ Len(history) > 1
    /\ history[1] = InitialHistory[1]

====
